---- MODULE Spec2Model ----
(***************************************************************************)
(* The OAuth PKCE authorization flow of login/pkce.js: one                 *)
(* OAuthClientServer instance, its local listener, the /auth and /callback *)
(* handlers that init() registers on the express app, the promise that     *)
(* authorize() returns, and the token endpoint that answers the exchanges. *)
(***************************************************************************)
EXTENDS Integers, Sequences, FiniteSets, TLC

(***************************************************************************)
(* Bounds of the model.                                                    *)
(***************************************************************************)
\* accepted authorize() calls
MaxFlows == 2
\* /callback handlers that await the token endpoint at the same time
MaxInflight == 2
\* handlers of the metadata server that run at the same time
MaxHandlers == 2
\* refresh tokens the provider issues after the login
MaxIssued == 2

(***************************************************************************)
(* Values.                                                                 *)
(***************************************************************************)
\* this.server = null
NULL == 0
\* the value of a missing query parameter, cookie, argument or JSON field
UNDEF == "undefined"
\* const PORT = 5555
PORT == 5555
\* const DEFAULT_SCOPE = 'openid'
DEFAULT_SCOPE == "openid"
\* const SCOPE_SEPARATOR = ' '
SCOPE_SEPARATOR == " "

\* the port argument of authorize(): the default and one other port
Ports == {PORT, PORT + 1}
\* the scopes argument of authorize(): omitted, or a scopes string
ScopeArgs == {UNDEF, "offline_access"}
\* config.clientSecret: not configured, or configured
Secrets == {UNDEF, "secret"}
\* values generateRandomString(STATE_LENGTH) returns
StateTokens == {"s1", "s2"}
\* values generateRandomString(CODE_VERIFIER_LENGTH, charSet) returns
Verifiers == {"v1", "v2"}
\* a property every JavaScript object inherits from Object.prototype
\* (others: toString, valueOf, hasOwnProperty, __proto__, ...); its length
\* and the capitals of the others keep them outside what
\* generateRandomString(STATE_LENGTH) can return
ObjectPrototypeKeys == {"constructor"}
\* what encodeURIComponent makes of the inherited value Object
InheritedValue == "function Object() { [native code] }"
\* what a /callback request can carry as state and as session_state cookie,
\* for the states that /auth can issue
StateInputs(tokens) == {UNDEF} \cup tokens \cup ObjectPrototypeKeys
\* what a /callback request can carry as code
CodeInputs == {UNDEF, "c1"}

\* a JSON body of the token endpoint, reduced to the fields the code reads
Json(id, rt, err, desc) ==
    [id_token |-> id, refresh_token |-> rt, error |-> err,
     error_description |-> desc]
NoJson == Json(UNDEF, UNDEF, UNDEF, UNDEF)
\* the answers of the token endpoint to an exchange: a status and a JSON
\* body, or a transport failure (fetch or response.json() throws)
Answer200 ==
    [kind |-> "response", status |-> 200, json |-> Json("X", "Y", UNDEF, UNDEF),
     message |-> UNDEF]
Answer400 ==
    [kind |-> "response", status |-> 400,
     json |-> Json(UNDEF, UNDEF, "invalid_grant", UNDEF), message |-> UNDEF]
Answer401 ==
    [kind |-> "response", status |-> 401,
     json |-> Json(UNDEF, UNDEF, "invalid_client", "bad secret"),
     message |-> UNDEF]
AnswerFailure ==
    [kind |-> "failure", status |-> 0, json |-> NoJson,
     message |-> "request to tokenUri failed"]
TokenAnswers == {Answer200, Answer400, Answer401, AnswerFailure}
\* the error fields of a JSON body: absent, empty, or a text
ErrorFields == {UNDEF, "", "invalid_grant"}
DescriptionFields == {UNDEF, "", "Token expired"}
\* the bodies of a refusal, with every combination of the two fields
ErrorBodies == {Json(UNDEF, UNDEF, e, d) : e \in ErrorFields, d \in DescriptionFields}
\* the statuses of a refusal
ErrorStatuses == {400, 500}
\* the refusals of the token and revoke endpoints
ErrorAnswers ==
    {[kind |-> "response", status |-> st, json |-> j, message |-> UNDEF] :
         st \in ErrorStatuses, j \in ErrorBodies}

\* JavaScript truthiness of a string-or-undefined value
Truthy(x) == x # UNDEF /\ x # ""

VARIABLES
    clientSecret,   \* this.clientSecret (UNDEF when not configured)
    scopes,         \* this.scopes
    server,         \* this.server: NULL or the handle of a listener
    serverAddress,  \* this.serverAddress: NULL or the bound port
    sessionStore,   \* this.sessionStore: own keys, state -> code verifier
    routes,         \* the /auth,/callback routes of this.app in registration
                    \* order: routes[i] is the flow whose resolve/reject the
                    \* i-th registered /callback handler closes over
    listeners,      \* per listener handle: its port, and "binding",
                    \* "listening" or "closed"
    promise,        \* per accepted authorize(): the promise it returned
    inflight,       \* /callback handlers awaiting their fetch(tokenUri)
    lastOp,         \* history: the call, request or answer that led here,
                    \* with what it was given and what it returned or sent
    everIssued,     \* history: the states /auth has issued so far
    redeemable,     \* history: the states issued by /auth and not sent to
                    \* the token endpoint since
    redirects,      \* history: the redirects /auth has answered with and
                    \* whose state no /callback has redeemed since, each
                    \* with its state, code_challenge and redirect_uri, and
                    \* whether it is the latest one that carries its state
    call,           \* the refresh(), revoke() or revokeAndGetLogoutUrl() call
                    \* in progress or returned last: its arguments, where it
                    \* awaits, the requests it has sent and what it returned
    util,           \* the call of generateRandomString() or the derivation
                    \* of a code challenge in progress or returned last
    script          \* login/index.js: the credential store, main(), the
                    \* metadata server and its handlers, and the provider's
                    \* view of the refresh tokens

vars == <<clientSecret, scopes, server, serverAddress, sessionStore, routes,
          listeners, promise, inflight, lastOp, everIssued, redeemable,
          redirects, call, util, script>>

(***************************************************************************)
(* Helpers: the promise of authorize(), the session store object, the      *)
(* code challenge.                                                         *)
(***************************************************************************)
Pending == [status |-> "pending", json |-> NoJson, message |-> UNDEF]
Resolved(json) == [status |-> "resolved", json |-> json, message |-> UNDEF]
Rejected(msg) == [status |-> "rejected", json |-> NoJson, message |-> msg]

\* a resolve/reject that replaces the recorded outcome
Settle_overwrite(p, outcome) == outcome

\* resolve(...) or reject(...) of the promise authorize() created: the first
\* call settles it, every later call is ignored
Settle(p, outcome) == IF p.status = "pending" THEN outcome ELSE p

\* new Error(m).message: a missing message gives the empty string
ErrorMessage(m) == IF m = UNDEF THEN "" ELSE m

\* this.sessionStore = {}
EmptyStore == [k \in {} |-> UNDEF]

\* a lookup that returns the value of some entry, whatever the key
Get_someEntry(store, k) ==
    IF DOMAIN store = {} THEN UNDEF ELSE store[CHOOSE x \in DOMAIN store : TRUE]

\* this.sessionStore[k]: an own key, else what Object.prototype gives
Get(store, k) ==
    IF k \in DOMAIN store THEN store[k]
    ELSE IF k \in ObjectPrototypeKeys THEN InheritedValue
    ELSE UNDEF

\* an assignment that leaves the value of a key the store already has
Put_keepsFirst(store, k, v) ==
    [x \in DOMAIN store \cup {k} |-> IF x \in DOMAIN store THEN store[x] ELSE v]

\* this.sessionStore[state] = codeVerifier
Put(store, k, v) == [x \in DOMAIN store \cup {k} |-> IF x = k THEN v ELSE store[x]]

\* a handler that reads the verifier and leaves the entry in the store
Delete_keep(store, k) == store

\* delete this.sessionStore[k]: removes an own key, nothing else
Delete(store, k) == [x \in DOMAIN store \ {k} |-> store[x]]

\* crypto.createHash('sha256').update(v).digest('base64'), as characters
Sha256Base64(v) ==
    IF v = "v1" THEN <<"q", "+", "7", "/", "+", "k", "=">>
    ELSE <<"/", "R", "2", "+", "w", "=", "=">>

RECURSIVE ReplaceAll(_, _, _)
\* String.replace(/c/g, d)
ReplaceAll(s, c, d) ==
    IF s = <<>> THEN <<>>
    ELSE <<IF Head(s) = c THEN d ELSE Head(s)>> \o ReplaceAll(Tail(s), c, d)

RECURSIVE StripTrailing(_, _)
\* String.replace(/=*$/, '')
StripTrailing(s, c) ==
    IF s # <<>> /\ s[Len(s)] = c THEN StripTrailing(SubSeq(s, 1, Len(s) - 1), c)
    ELSE s

\* a challenge of the plain method: the verifier itself
codeChallenge_plain(v) == v

\* a conversion that leaves the padding in place
webSafe_keepsPadding(digest) ==
    ReplaceAll(ReplaceAll(digest, "/", "_"), "+", "-")

\* .replace(/\//g, '_').replace(/\+/g, '-').replace(/=*$/, '')
webSafe(digest) ==
    StripTrailing(ReplaceAll(ReplaceAll(digest, "/", "_"), "+", "-"), "=")

\* the code challenge of /auth: web-safe base64 of the digest
codeChallenge(v) == webSafe(Sha256Base64(v))

(***************************************************************************)
(* The client object.                                                      *)
(***************************************************************************)
\* what an async method of the token client has returned so far
Awaiting == [kind |-> "pending", json |-> NoJson, url |-> UNDEF, message |-> UNDEF]
Returned(json, url) == [kind |-> "return", json |-> json, url |-> url, message |-> UNDEF]
Thrown(msg) == [kind |-> "throw", json |-> NoJson, url |-> UNDEF, message |-> msg]

\* neither generateRandomString() nor the challenge derivation is followed
NoUtil == [fn |-> "none", pc |-> "returned"]
\* the client is used without login/index.js
NoScript == [pc |-> "none"]

\* no refresh(), revoke() or revokeAndGetLogoutUrl() has been called
NoCall ==
    [fn |-> "none", token |-> UNDEF, pc |-> "returned", requests |-> <<>>,
     answers |-> <<>>, resp |-> NoJson, result |-> Awaiting]

\* the client after its constructor, for the configured secrets given
InitOver(secrets) ==
    /\ clientSecret \in secrets
    /\ scopes = DEFAULT_SCOPE
    /\ server = NULL
    /\ serverAddress = NULL
    /\ sessionStore = EmptyStore
    /\ routes = <<>>
    /\ listeners = <<>>
    /\ promise = <<>>
    /\ inflight = {}
    /\ lastOp = [op |-> "new"]
    /\ everIssued = {}
    /\ redeemable = {}
    /\ redirects = {}
    /\ call = NoCall
    /\ util = NoUtil
    /\ script = NoScript

\* some listener is bound or being bound
Bound == \E l \in DOMAIN listeners : listeners[l].state # "closed"
\* listeners that go on serving requests after they are closed
Listening_afterClose == DOMAIN listeners
\* the listeners that accept requests
Listening == {l \in DOMAIN listeners : listeners[l].state = "listening"}

\* a guard that lets every call through
authorizeRejects_never == FALSE

\* if (this.server): only one authorization flow at a time
authorizeRejects == server # NULL

\* scopes recorded as the caller gave them
recordedScopes_asGiven(sc) == IF Truthy(sc) THEN sc ELSE DEFAULT_SCOPE

\* the scopes recorded by authorize(): openid is always appended
recordedScopes(sc) ==
    IF Truthy(sc) THEN sc \o SCOPE_SEPARATOR \o DEFAULT_SCOPE ELSE DEFAULT_SCOPE

\* what authorize() returns while a flow is pending
authorizeRejection(sc, port) ==
    [op |-> "authorize", scopesArg |-> sc, portArg |-> port,
     bound |-> Bound, marker |-> server, result |-> "rejected", flow |-> NULL,
     message |-> "Pending authorization flow. Close existing session to rerun."]

\* the rest of authorize(): the promise is created, init() registers the
\* handlers with its resolve/reject, and app.listen() starts to bind
authorizeAccepted(sc, port) ==
    /\ Len(routes) < MaxFlows
    /\ scopes' = recordedScopes(sc)
    /\ routes' = Append(routes, Len(routes) + 1)
    /\ promise' = Append(promise, Pending)
    /\ listeners' = Append(listeners, [state |-> "binding", port |-> port])
    /\ server' = Len(routes) + 1
    /\ lastOp' = [op |-> "authorize", scopesArg |-> sc, portArg |-> port,
                  bound |-> Bound, marker |-> server, result |-> "pending",
                  flow |-> Len(routes) + 1, message |-> UNDEF]
    /\ UNCHANGED <<clientSecret, serverAddress, sessionStore, inflight,
                   everIssued, redeemable, redirects, call, util, script>>

\* an authorize() that records the scopes before it looks at this.server
authorize_scopesFirst(sc, port) ==
    IF authorizeRejects
    THEN /\ lastOp' = authorizeRejection(sc, port)
         /\ scopes' = recordedScopes(sc)
         /\ UNCHANGED <<clientSecret, server, serverAddress, sessionStore,
                        routes, listeners, promise, inflight, everIssued,
                        redeemable, redirects, call, util, script>>
    ELSE authorizeAccepted(sc, port)

\* authorize(scopes, port): rejects at once while this.server is set
authorize(sc, port) ==
    IF authorizeRejects
    THEN /\ lastOp' = authorizeRejection(sc, port)
         /\ UNCHANGED <<clientSecret, scopes, server, serverAddress,
                        sessionStore, routes, listeners, promise, inflight,
                        everIssued, redeemable, redirects, call, util, script>>
    ELSE authorizeAccepted(sc, port)

\* the callback of app.listen(): the listener is bound; the address is
\* recorded and the browser is opened at /auth.  A listener closed before
\* it is bound never reports that it listens.
listening(l) ==
    /\ l \in DOMAIN listeners
    /\ listeners[l].state = "binding"
    /\ server # NULL
    /\ listeners' = [listeners EXCEPT ![l].state = "listening"]
    /\ serverAddress' = listeners[server].port
    /\ lastOp' = [op |-> "listening", opened |-> listeners[server].port]
    /\ UNCHANGED <<clientSecret, scopes, server, sessionStore, routes, promise,
                   inflight, everIssued, redeemable, redirects, call, util, script>>

\* a close() that forgets the handle and leaves the listener open
AfterClose_leak(ls, srv) == ls

\* the listeners after close(): this.server.close() when this.server is set
AfterClose(ls, srv) ==
    IF srv # NULL THEN [ls EXCEPT ![srv].state = "closed"] ELSE ls

\* a close() that closes the listener and keeps this.server
close_keepsMarker ==
    /\ listeners' = AfterClose(listeners, server)
    /\ lastOp' = [op |-> "close", marker |-> server]
    /\ UNCHANGED <<clientSecret, scopes, server, serverAddress, sessionStore,
                   routes, promise, inflight, everIssued, redeemable, redirects, call,
                   util, script>>

\* close(), called by the owner of the client.  The handlers that await the
\* token endpoint go on; the history notes on each of them that close() has
\* closed the listener meanwhile.
close ==
    /\ listeners' = AfterClose(listeners, server)
    /\ server' = NULL
    /\ inflight' = {[h EXCEPT !.closedMeanwhile = @ \/ server # NULL] :
                        h \in inflight}
    /\ lastOp' = [op |-> "close", marker |-> server]
    /\ UNCHANGED <<clientSecret, scopes, serverAddress, sessionStore, routes,
                   promise, everIssued, redeemable, redirects, call, util, script>>

(***************************************************************************)
(* The HTTP handlers.  express runs the first handler registered for a     *)
(* path and, as the handlers never call next(), no later one: every        *)
(* request is served by the closures of the first init() call.             *)
(***************************************************************************)
\* the flow whose resolve/reject the serving /callback handler closes over
handlerFlow == routes[1]

\* the history of redirects once /auth has answered with the redirect new:
\* an earlier redirect with the same state is no longer the latest one
recordRedirect(new) ==
    {r \in redirects : r.state # new.state}
    \cup {[r EXCEPT !.latest = FALSE] :
              r \in {q \in redirects : /\ q.state = new.state
                                       /\ [q EXCEPT !.latest = TRUE] # new}}
    \cup {new}

\* GET /auth: provisions state and code verifier, stores them, sets the
\* session_state cookie and redirects to the authorization URL
getAuth(state, codeVerifier) ==
    /\ Listening # {}
    /\ sessionStore' = Put(sessionStore, state, codeVerifier)
    /\ everIssued' = everIssued \cup {state}
    /\ redeemable' = redeemable \cup {state}
    /\ redirects' = recordRedirect([state |-> state,
                                    code_challenge |-> codeChallenge(codeVerifier),
                                    redirect_uri |-> serverAddress,
                                    latest |-> TRUE])
    /\ lastOp' = [op |-> "auth", status |-> 302, cookie |-> state,
                  verifier |-> codeVerifier, redirect_uri |-> serverAddress,
                  scope |-> scopes,
                  code_challenge |-> codeChallenge(codeVerifier),
                  code_challenge_method |-> "S256", state |-> state]
    /\ UNCHANGED <<clientSecret, scopes, server, serverAddress, routes,
                   listeners, promise, inflight, call, util, script>>

\* the condition of the /callback handler
validCallback(cookie, code, actualState) ==
    /\ Truthy(actualState)
    /\ Truthy(code)
    /\ cookie = actualState
    /\ Get(sessionStore, actualState) # UNDEF

\* an exchange that leaves the secret out
exchangeRequest_noSecret(code, actualState) ==
    [grant_type |-> "authorization_code", code |-> code,
     code_verifier |-> Get(sessionStore, actualState),
     client_secret |-> UNDEF, redirect_uri |-> serverAddress]

\* the fetch(this.tokenUri, ...) of the /callback handler; client_secret is
\* in the body when this.clientSecret is truthy
exchangeRequest(code, actualState) ==
    [grant_type |-> "authorization_code", code |-> code,
     code_verifier |-> Get(sessionStore, actualState),
     client_secret |-> IF Truthy(clientSecret) THEN clientSecret ELSE UNDEF,
     redirect_uri |-> serverAddress]

\* the tail of a /callback handler on a path that returns before close()
handlerEnd_noClose(outcome) ==
    /\ promise' = [promise EXCEPT ![handlerFlow] = Settle(@, outcome)]
    /\ UNCHANGED <<listeners, server>>

\* the tail of every path of the /callback handler: resolve or reject, then
\* this.close()
handlerEnd(outcome) ==
    /\ promise' = [promise EXCEPT ![handlerFlow] = Settle(@, outcome)]
    /\ listeners' = AfterClose(listeners, server)
    /\ server' = NULL

\* what the request was, for the history
hitFacts(cookie, code, actualState) ==
    [op |-> "callback", flow |-> server,
     generated |-> actualState \in StateTokens,
     hasState |-> actualState \notin {UNDEF, ""},
     hasCode |-> code \notin {UNDEF, ""},
     cookieMatches |-> cookie = actualState,
     ownKey |-> actualState \in DOMAIN sessionStore,
     everIssued |-> actualState \in everIssued,
     redeemable |-> actualState \in redeemable,
     overlaps |-> \E h \in inflight : h.state = actualState]

\* the identifier of a handler that starts to await
freeId == CHOOSE i \in 1..MaxInflight : \A h \in inflight : h.id # i

\* a /callback handler that deletes the entry of the state on every path
getCallback_dropsEntry(cookie, code, actualState) ==
    /\ Listening # {}
    /\ IF validCallback(cookie, code, actualState)
       THEN /\ Cardinality(inflight) < MaxInflight
            /\ sessionStore' = Delete(sessionStore, actualState)
            /\ redeemable' = redeemable \ {actualState}
            /\ redirects' = {r \in redirects : r.state # actualState}
            /\ inflight' = inflight \cup
                   {[id |-> freeId, flow |-> server, state |-> actualState,
                     closedMeanwhile |-> FALSE]}
            /\ lastOp' = [fact \in {"sent", "status", "body", "request"} |->
                            CASE fact = "sent" -> TRUE
                              [] fact = "status" -> 0
                              [] fact = "body" -> UNDEF
                              [] fact = "request" -> exchangeRequest(code, actualState)]
                         @@ hitFacts(cookie, code, actualState)
            /\ UNCHANGED <<promise, listeners, server>>
       ELSE /\ lastOp' = [fact \in {"sent", "status", "body"} |->
                            CASE fact = "sent" -> FALSE
                              [] fact = "status" -> 400
                              [] fact = "body" -> "Invalid IdP response"]
                         @@ hitFacts(cookie, code, actualState)
            /\ handlerEnd(Rejected("Invalid IdP response"))
            /\ sessionStore' = Delete(sessionStore, actualState)
            /\ UNCHANGED <<redeemable, redirects, inflight>>
    /\ UNCHANGED <<clientSecret, scopes, serverAddress, routes, everIssued,
                   call, util, script>>

\* GET /callback, up to the await of fetch() on the valid path, and to the
\* end of the handler on the invalid path
getCallback(cookie, code, actualState) ==
    /\ Listening # {}
    /\ IF validCallback(cookie, code, actualState)
       THEN /\ Cardinality(inflight) < MaxInflight
            /\ sessionStore' = Delete(sessionStore, actualState)
            /\ redeemable' = redeemable \ {actualState}
            /\ redirects' = {r \in redirects : r.state # actualState}
            /\ inflight' = inflight \cup
                   {[id |-> freeId, flow |-> server, state |-> actualState,
                     closedMeanwhile |-> FALSE]}
            /\ lastOp' = [fact \in {"sent", "status", "body", "request"} |->
                            CASE fact = "sent" -> TRUE
                              [] fact = "status" -> 0
                              [] fact = "body" -> UNDEF
                              [] fact = "request" -> exchangeRequest(code, actualState)]
                         @@ hitFacts(cookie, code, actualState)
            /\ UNCHANGED <<promise, listeners, server>>
       ELSE /\ lastOp' = [fact \in {"sent", "status", "body"} |->
                            CASE fact = "sent" -> FALSE
                              [] fact = "status" -> 400
                              [] fact = "body" -> "Invalid IdP response"]
                         @@ hitFacts(cookie, code, actualState)
            /\ handlerEnd(Rejected("Invalid IdP response"))
            /\ UNCHANGED <<sessionStore, redeemable, redirects, inflight>>
    /\ UNCHANGED <<clientSecret, scopes, serverAddress, routes, everIssued,
                   call, util, script>>

\* the HTTP response of the /callback handler to an answer of the exchange
exchangeResponse(a) ==
    IF a.kind = "failure"
    THEN [status |-> 500, body |-> a.message]
    ELSE IF a.status = 200
    THEN [status |-> 302, body |-> "successUri"]
    ELSE [status |-> a.status, body |-> ErrorMessage(a.json.error)]

\* what the /callback handler settles the promise with
exchangeOutcome(a) ==
    IF a.kind = "failure" THEN Rejected(a.message)
    ELSE IF a.status = 200 THEN Resolved(a.json)
    ELSE Rejected(ErrorMessage(a.json.error))

\* the rest of a /callback handler once the token endpoint has answered
\* (or the request has failed)
exchangeAnswer(h, a) ==
    /\ h \in inflight
    /\ inflight' = inflight \ {h}
    /\ lastOp' = [op |-> "answer", flow |-> h.flow, state |-> h.state,
                  closedMeanwhile |-> h.closedMeanwhile,
                  pendingBefore |-> promise[h.flow].status = "pending",
                  answer |-> a, response |-> exchangeResponse(a)]
    /\ handlerEnd(exchangeOutcome(a))
    /\ UNCHANGED <<clientSecret, scopes, serverAddress, sessionStore, routes,
                   everIssued, redeemable, redirects, call, util, script>>

(***************************************************************************)
(* The token client: refresh(), revoke() and revokeAndGetLogoutUrl().  A   *)
(* call is followed from its first request to its return; pc is the        *)
(* request it awaits.                                                      *)
(***************************************************************************)
\* an error text that is the error code alone
ErrorText_errorOnly(json) == ErrorMessage(json.error)

\* json.error_description || json.error || 'Unknown Error'
ErrorText(json) ==
    IF Truthy(json.error_description) THEN json.error_description
    ELSE IF Truthy(json.error) THEN json.error
    ELSE "Unknown Error"

\* the POST of refresh() to this.tokenUri
refreshRequest(refreshToken) ==
    [to |-> "tokenUri", grant_type |-> "refresh_token", token |-> refreshToken,
     token_type_hint |-> UNDEF,
     client_secret |-> IF Truthy(clientSecret) THEN clientSecret ELSE UNDEF]

\* the POST of revoke() to this.revokeUri
revokeRequest(token, tokenType) ==
    [to |-> "revokeUri", grant_type |-> UNDEF, token |-> token,
     token_type_hint |-> tokenType,
     client_secret |-> IF Truthy(clientSecret) THEN clientSecret ELSE UNDEF]

\* refresh() after its fetch: the body is parsed whatever the status, then
\* every status but 200 throws
refreshResult(a) ==
    IF a.kind # "response" THEN Thrown(a.message)
    ELSE IF a.status # 200 THEN Thrown(ErrorText(a.json))
    ELSE Returned(a.json, UNDEF)

\* a revoke() that takes every answer of the endpoint for a success
revokeResult_anyStatus(a) ==
    IF a.kind = "failure" THEN Thrown(a.message) ELSE Returned(NoJson, UNDEF)

\* revoke() after its fetch: the body is parsed only when the status is not
\* 200
revokeResult(a) ==
    IF a.kind = "failure" THEN Thrown(a.message)
    ELSE IF a.status = 200 THEN Returned(NoJson, UNDEF)
    ELSE IF a.kind = "malformed" THEN Thrown(a.message)
    ELSE Thrown(ErrorText(a.json))

\* a sign out link built from the refresh token of the answer
logoutUrl_refreshToken(resp) == "logoutUri" \o "?id_token_hint=" \o resp.refresh_token

\* `${this.logoutUri}?id_token_hint=${resp.id_token}`
logoutUrl(resp) == "logoutUri" \o "?id_token_hint=" \o resp.id_token

\* refresh(refreshToken) up to its await
callRefresh(refreshToken) ==
    /\ call.pc = "returned"
    /\ call' = [fn |-> "refresh", token |-> refreshToken, pc |-> "refresh",
                requests |-> <<refreshRequest(refreshToken)>>,
                answers |-> <<>>, resp |-> NoJson, result |-> Awaiting]
    /\ lastOp' = [op |-> "refresh"]
    /\ UNCHANGED <<clientSecret, scopes, server, serverAddress, sessionStore,
                   routes, listeners, promise, inflight, everIssued, redeemable, redirects,
                   util, script>>

\* a revoke() that also ends the authorization flow
callRevoke_endsFlow(token, tokenType) ==
    /\ call.pc = "returned"
    /\ call' = [fn |-> "revoke", token |-> token, pc |-> "revoke",
                requests |-> <<revokeRequest(token, tokenType)>>,
                answers |-> <<>>, resp |-> NoJson, result |-> Awaiting]
    /\ lastOp' = [op |-> "revoke"]
    /\ listeners' = AfterClose(listeners, server)
    /\ server' = NULL
    /\ UNCHANGED <<clientSecret, scopes, serverAddress, sessionStore,
                   routes, promise, inflight, everIssued, redeemable, redirects,
                   util, script>>

\* revoke(token, tokenType) up to its await
callRevoke(token, tokenType) ==
    /\ call.pc = "returned"
    /\ call' = [fn |-> "revoke", token |-> token, pc |-> "revoke",
                requests |-> <<revokeRequest(token, tokenType)>>,
                answers |-> <<>>, resp |-> NoJson, result |-> Awaiting]
    /\ lastOp' = [op |-> "revoke"]
    /\ UNCHANGED <<clientSecret, scopes, server, serverAddress, sessionStore,
                   routes, listeners, promise, inflight, everIssued, redeemable, redirects,
                   util, script>>

\* revokeAndGetLogoutUrl(refreshToken) up to the await of its refresh()
callRevokeAndGetLogoutUrl(refreshToken) ==
    /\ call.pc = "returned"
    /\ call' = [fn |-> "revokeAndGetLogoutUrl", token |-> refreshToken,
                pc |-> "refresh",
                requests |-> <<refreshRequest(refreshToken)>>,
                answers |-> <<>>, resp |-> NoJson, result |-> Awaiting]
    /\ lastOp' = [op |-> "revokeAndGetLogoutUrl"]
    /\ UNCHANGED <<clientSecret, scopes, server, serverAddress, sessionStore,
                   routes, listeners, promise, inflight, everIssued, redeemable, redirects,
                   util, script>>

\* a revokeAndGetLogoutUrl() that goes on to revoke() whatever refresh() did
afterRefresh_ignoresFailure(c, r) ==
    [c EXCEPT !.pc = "revoke", !.resp = r.json,
              !.requests = Append(@, revokeRequest(c.token, "refresh_token"))]

\* the call after its refresh(): refresh() itself returns; in
\* revokeAndGetLogoutUrl() a throw ends the call and a return is followed
\* by this.revoke(refreshToken, 'refresh_token')
afterRefresh(c, r) ==
    IF c.fn = "refresh" \/ r.kind = "throw"
    THEN [c EXCEPT !.pc = "returned", !.result = r]
    ELSE [c EXCEPT !.pc = "revoke", !.resp = r.json,
                   !.requests = Append(@, revokeRequest(c.token, "refresh_token"))]

\* a revokeAndGetLogoutUrl() that returns the link whatever revoke() did
afterRevoke_swallows(c, r) ==
    [c EXCEPT !.pc = "returned",
              !.result = IF c.fn = "revoke" THEN r
                         ELSE Returned(NoJson, logoutUrl(c.resp))]

\* the call after its revoke(): revoke() itself returns; in
\* revokeAndGetLogoutUrl() a throw ends the call and a return is followed
\* by the return of the sign out link
afterRevoke(c, r) ==
    [c EXCEPT !.pc = "returned",
              !.result = IF c.fn = "revoke" \/ r.kind = "throw" THEN r
                         ELSE Returned(NoJson, logoutUrl(c.resp))]

\* the token endpoint answers the POST of refresh(), or the request fails
refreshAnswer(a) ==
    /\ call.pc = "refresh"
    /\ call' = afterRefresh([call EXCEPT !.answers = Append(@, a)],
                            refreshResult(a))
    /\ lastOp' = [op |-> "refreshAnswer"]
    /\ UNCHANGED <<clientSecret, scopes, server, serverAddress, sessionStore,
                   routes, listeners, promise, inflight, everIssued, redeemable, redirects,
                   util, script>>

\* the revoke endpoint answers the POST of revoke(), or the request fails
revokeAnswer(a) ==
    /\ call.pc = "revoke"
    /\ call' = afterRevoke([call EXCEPT !.answers = Append(@, a)],
                           revokeResult(a))
    /\ lastOp' = [op |-> "revokeAnswer"]
    /\ UNCHANGED <<clientSecret, scopes, server, serverAddress, sessionStore,
                   routes, listeners, promise, inflight, everIssued, redeemable, redirects,
                   util, script>>

(***************************************************************************)
(* generateRandomString() and the derivation of the code challenge.        *)
(* Strings are sequences of characters; a value of Math.random() is a      *)
(* fraction <<numerator, denominator>> in [0, 1).                          *)
(***************************************************************************)
\* the longest string asked of generateRandomString()
MaxLength == 3

\* 'abcdefghijklmnopqrstuvwxyz0123456789'
DefaultChars ==
    <<"a", "b", "c", "d", "e", "f", "g", "h", "i", "j", "k", "l", "m", "n",
      "o", "p", "q", "r", "s", "t", "u", "v", "w", "x", "y", "z", "0", "1",
      "2", "3", "4", "5", "6", "7", "8", "9">>
\* the charSet argument: omitted, empty, or an alphabet
NoCharSet == [given |-> FALSE, chars |-> <<>>]
CharSets ==
    {NoCharSet, [given |-> TRUE, chars |-> <<>>],
     [given |-> TRUE, chars |-> <<"A", "-", "~">>]}
\* values of Math.random(): the least, the next, the middle, the greatest
Randoms == {<<0, 64>>, <<1, 64>>, <<32, 64>>, <<63, 64>>}

\* charSet || 'abcdefghijklmnopqrstuvwxyz0123456789'
allowedChars(charSet) ==
    IF charSet.given /\ charSet.chars # <<>> THEN charSet.chars ELSE DefaultChars

\* an index rounded up
randomIndex_ceil(r, len) == (r[1] * len + r[2] - 1) \div r[2]

\* Math.floor(Math.random() * allowedChars.length)
randomIndex(r, len) == (r[1] * len) \div r[2]

\* String.charAt(i): the empty string outside the string
charAt(str, i) == IF i \in 0..(Len(str) - 1) THEN str[i + 1] ELSE ""

\* chars.join(''): the characters of the pieces
join(pieces) == SelectSeq(pieces, LAMBDA c : c # "")

\* generateRandomString(length, charSet) up to its loop
callGenerate(length, charSet) ==
    /\ util.pc = "returned"
    /\ util' = [fn |-> "generateRandomString", pc |-> "loop",
                length |-> length, charSet |-> charSet,
                allowedChars |-> allowedChars(charSet), chars |-> <<>>,
                out |-> <<>>]
    /\ lastOp' = [op |-> "generateRandomString"]
    /\ UNCHANGED <<clientSecret, scopes, server, serverAddress, sessionStore,
                   routes, listeners, promise, inflight, everIssued, redeemable, redirects,
                   call, script>>

\* one turn of the loop: i < length, chars.push(allowedChars.charAt(...))
generatePush(r) ==
    /\ util.pc = "loop"
    /\ Len(util.chars) < util.length
    /\ util' = [util EXCEPT !.chars =
                    Append(@, charAt(util.allowedChars,
                                     randomIndex(r, Len(util.allowedChars))))]
    /\ lastOp' = [op |-> "generateRandomString"]
    /\ UNCHANGED <<clientSecret, scopes, server, serverAddress, sessionStore,
                   routes, listeners, promise, inflight, everIssued, redeemable, redirects,
                   call, script>>

\* the end of the loop: return chars.join('')
generateReturn ==
    /\ util.pc = "loop"
    /\ ~(Len(util.chars) < util.length)
    /\ util' = [util EXCEPT !.pc = "returned", !.out = join(util.chars)]
    /\ lastOp' = [op |-> "generateRandomString"]
    /\ UNCHANGED <<clientSecret, scopes, server, serverAddress, sessionStore,
                   routes, listeners, promise, inflight, everIssued, redeemable, redirects,
                   call, script>>

\* the characters of a base64 digest that the conversion is about
Base64Chars == {"A", "+", "/"}
\* base64 digests: characters, then no, one or two '=' of padding
Digests ==
    {<<a, b, c>> \o pad : a \in Base64Chars, b \in Base64Chars,
                          c \in Base64Chars,
                          pad \in {<<>>, <<"=">>, <<"=", "=">>}}

\* the derivation of the code challenge from the digest of a verifier
deriveChallenge(digest) ==
    /\ util.pc = "returned"
    /\ util' = [fn |-> "codeChallenge", pc |-> "returned", digest |-> digest,
                out |-> webSafe(digest)]
    /\ lastOp' = [op |-> "codeChallenge"]
    /\ UNCHANGED <<clientSecret, scopes, server, serverAddress, sessionStore,
                   routes, listeners, promise, inflight, everIssued, redeemable, redirects,
                   call, script>>

(***************************************************************************)
(* login/index.js: main().  The credential store is keytar's entry         *)
(* (APP_ID, 'RefreshToken'); UNDEF stands for no entry.                    *)
(***************************************************************************)
\* client.authorize('offline_access email')
MainScopes == "offline_access email"

\* the script when main() is called, for what the credential store holds
ScriptStart(stored) ==
    [pc |-> "start", store |-> stored, startedWith |-> stored,
     metaServer |-> "off", exited |-> FALSE, handlers |-> {},
     latest |-> UNDEF, issued |-> 0, revoked |-> {}, cleared |-> FALSE]

\* await keytar.deletePassword(APP_ID, 'RefreshToken'): main() logs in every
\* time it is started
mainDelete ==
    /\ script.pc = "start"
    /\ script' = [script EXCEPT !.pc = "authorize", !.store = UNDEF]
    /\ lastOp' = [op |-> "mainDelete"]
    /\ UNCHANGED <<clientSecret, scopes, server, serverAddress, sessionStore,
                   routes, listeners, promise, inflight, everIssued, redeemable, redirects,
                   call, util>>

\* client.authorize('offline_access email'), on the client main() has made
mainAuthorize ==
    /\ script.pc = "authorize"
    /\ routes = <<>>
    /\ authorize(MainScopes, PORT)

\* a main() that goes on whatever authorize() settled with
afterAuthorize_startsAnyway(sc, p) == [sc EXCEPT !.pc = "saved"]

\* main() after await client.authorize(...): a rejection goes to the catch;
\* a resolution saves the refresh token, if one was returned
afterAuthorize(sc, p) ==
    IF p.status = "rejected" THEN [sc EXCEPT !.pc = "failed"]
    ELSE IF Truthy(p.json.refresh_token)
    THEN [sc EXCEPT !.pc = "saved", !.store = p.json.refresh_token,
                    !.latest = p.json.refresh_token]
    ELSE [sc EXCEPT !.pc = "saved"]

\* the promise of authorize() has settled and main() goes on
mainResumed ==
    /\ script.pc = "authorize"
    /\ Len(promise) >= 1
    /\ promise[1].status # "pending"
    /\ script' = afterAuthorize(script, promise[1])
    /\ lastOp' = [op |-> "mainResumed"]
    /\ UNCHANGED <<clientSecret, scopes, server, serverAddress, sessionStore,
                   routes, listeners, promise, inflight, everIssued, redeemable, redirects,
                   call, util>>

\* startMetadataServer(client): app.listen(PORT, HOST) on port 5000
startMetadataServer ==
    /\ script.pc = "saved"
    /\ script' = [script EXCEPT !.pc = "serving", !.metaServer = "listening"]
    /\ lastOp' = [op |-> "startMetadataServer"]
    /\ UNCHANGED <<clientSecret, scopes, server, serverAddress, sessionStore,
                   routes, listeners, promise, inflight, everIssued, redeemable, redirects,
                   call, util>>

(***************************************************************************)
(* login/index.js: the handlers of the metadata server, and the provider   *)
(* behind the token and revoke endpoints.  The provider accepts a refresh  *)
(* token it has issued and not revoked; answering a refresh it may issue a *)
(* new refresh token.                                                      *)
(***************************************************************************)
\* a 200 whose body has no refresh_token
Answer200NoRefresh ==
    [kind |-> "response", status |-> 200, json |-> Json("X", UNDEF, UNDEF, UNDEF),
     message |-> UNDEF]
\* no answer is on its way to a handler
NoAnswer == [kind |-> "none", status |-> 0, json |-> NoJson, message |-> UNDEF]
\* the n-th refresh token the provider issues after the login
IssuedToken(n) == "R" \o ToString(n)

\* client.refresh(token) or client.revokeAndGetLogoutUrl(token) up to the
\* await of the first fetch
startCall(fn, token) ==
    [fn |-> fn, token |-> token, pc |-> "refresh",
     requests |-> <<refreshRequest(token)>>, answers |-> <<>>,
     resp |-> NoJson, result |-> Awaiting]

\* a request arrives at the metadata server; the handler awaits
\* keytar.getPassword()
metaRequest(route) ==
    /\ script.metaServer = "listening"
    /\ ~script.exited
    /\ Cardinality(script.handlers) < MaxHandlers
    /\ script' = [script EXCEPT !.handlers = @ \cup
           {[id |-> CHOOSE i \in 1..MaxHandlers :
                        \A h \in script.handlers : h.id # i,
             route |-> route, pc |-> "get", token |-> UNDEF, call |-> NoCall,
             pending |-> NoAnswer]}]
    /\ lastOp' = [op |-> "metaRequest", route |-> route]
    /\ UNCHANGED <<clientSecret, scopes, server, serverAddress, sessionStore,
                   routes, listeners, promise, inflight, everIssued, redeemable, redirects,
                   call, util>>

\* the handler h replaced by its next state
Replace(h, g) == (script.handlers \ {h}) \cup {g}

\* GET /token and GET /idptoken after getPassword(): with a token the
\* handler calls client.refresh(refreshToken), without one it answers 400
tokenGot(h) ==
    /\ ~script.exited
    /\ h \in script.handlers
    /\ h.route \in {"token", "idptoken"}
    /\ h.pc = "get"
    /\ IF Truthy(script.store)
       THEN /\ script' = [script EXCEPT !.handlers = Replace(h,
                   [h EXCEPT !.pc = "call", !.token = script.store,
                             !.call = startCall("refresh", script.store)])]
            /\ lastOp' = [op |-> "tokenGot"]
       ELSE /\ script' = [script EXCEPT !.handlers = @ \ {h}]
            /\ lastOp' = [op |-> "metaResponse", route |-> h.route,
                          status |-> 400,
                          body |-> "No session detected. Please login first.",
                          removed |-> UNDEF, revoked |-> FALSE]
    /\ UNCHANGED <<clientSecret, scopes, server, serverAddress, sessionStore,
                   routes, listeners, promise, inflight, everIssued, redeemable, redirects,
                   call, util>>

\* GET /logout after getPassword(): the handler awaits deletePassword()
logoutGot(h) ==
    /\ ~script.exited
    /\ h \in script.handlers
    /\ h.route = "logout"
    /\ h.pc = "get"
    /\ script' = [script EXCEPT !.handlers = Replace(h,
           [h EXCEPT !.pc = "delete", !.token = script.store])]
    /\ lastOp' = [op |-> "logoutGot"]
    /\ UNCHANGED <<clientSecret, scopes, server, serverAddress, sessionStore,
                   routes, listeners, promise, inflight, everIssued, redeemable, redirects,
                   call, util>>

\* GET /logout after deletePassword(): the entry is gone and the handler
\* calls client.revokeAndGetLogoutUrl(refreshToken)
logoutDeleted(h) ==
    /\ ~script.exited
    /\ h \in script.handlers
    /\ h.route = "logout"
    /\ h.pc = "delete"
    /\ script' = [script EXCEPT
           !.store = UNDEF,
           !.cleared = TRUE,
           !.handlers = Replace(h,
               [h EXCEPT !.pc = "call",
                         !.call = startCall("revokeAndGetLogoutUrl", h.token)])]
    /\ lastOp' = [op |-> "logoutDeleted"]
    /\ UNCHANGED <<clientSecret, scopes, server, serverAddress, sessionStore,
                   routes, listeners, promise, inflight, everIssued, redeemable, redirects,
                   call, util>>

\* the answers the provider can give to a refresh of the token: it accepts
\* a token it has issued and not revoked, with or without a new refresh
\* token, or it refuses; or the request does not reach it
refreshOutcomes(token) ==
    {Answer400, AnswerFailure} \cup
    (IF Truthy(token) /\ token \notin script.revoked
     THEN {Answer200NoRefresh} \cup
          (IF script.issued < MaxIssued
           THEN {[kind |-> "response", status |-> 200,
                  json |-> Json("X", IssuedToken(script.issued + 1), UNDEF, UNDEF),
                  message |-> UNDEF]}
           ELSE {})
     ELSE {})

\* the token endpoint handles the refresh request of a handler; the answer
\* is on its way
providerRefresh(h, a) ==
    /\ ~script.exited
    /\ h \in script.handlers
    /\ h.pc = "call" /\ h.call.pc = "refresh" /\ h.pending = NoAnswer
    /\ a \in refreshOutcomes(h.token)
    /\ script' = [script EXCEPT
           !.handlers = Replace(h, [h EXCEPT !.pending = a]),
           !.issued = IF Truthy(a.json.refresh_token) THEN @ + 1 ELSE @,
           !.latest = IF Truthy(a.json.refresh_token)
                      THEN a.json.refresh_token ELSE @]
    /\ lastOp' = [op |-> "providerRefresh"]
    /\ UNCHANGED <<clientSecret, scopes, server, serverAddress, sessionStore,
                   routes, listeners, promise, inflight, everIssued, redeemable, redirects,
                   call, util>>

\* the revoke endpoint handles the revoke request of a handler: on a 200
\* the token is revoked
providerRevoke(h, a) ==
    /\ ~script.exited
    /\ h \in script.handlers
    /\ h.pc = "call" /\ h.call.pc = "revoke" /\ h.pending = NoAnswer
    /\ a \in {Answer200NoRefresh, Answer400, AnswerFailure}
    /\ script' = [script EXCEPT
           !.handlers = Replace(h, [h EXCEPT !.pending = a]),
           !.revoked = IF a.kind = "response" /\ a.status = 200
                       THEN @ \cup {h.token} ELSE @]
    /\ lastOp' = [op |-> "providerRevoke"]
    /\ UNCHANGED <<clientSecret, scopes, server, serverAddress, sessionStore,
                   routes, listeners, promise, inflight, everIssued, redeemable, redirects,
                   call, util>>

\* the call of a handler once the answer on its way has arrived
callAfter(h) ==
    IF h.call.pc = "refresh"
    THEN afterRefresh([h.call EXCEPT !.answers = Append(@, h.pending)],
                      refreshResult(h.pending))
    ELSE afterRevoke([h.call EXCEPT !.answers = Append(@, h.pending)],
                     revokeResult(h.pending))

\* GET /token and GET /idptoken after await client.refresh(): a returned
\* refresh_token is saved and the id_token sent; an error is answered 400
tokenResumed(h) ==
    /\ ~script.exited
    /\ h \in script.handlers
    /\ h.route \in {"token", "idptoken"}
    /\ h.pc = "call" /\ h.pending # NoAnswer
    /\ LET result == callAfter(h).result IN
       /\ script' = [script EXCEPT
              !.handlers = @ \ {h},
              !.store = IF result.kind = "return"
                           /\ Truthy(result.json.refresh_token)
                        THEN result.json.refresh_token ELSE @]
       /\ lastOp' = [op |-> "metaResponse", route |-> h.route,
                     status |-> IF result.kind = "return" THEN 200 ELSE 400,
                     body |-> IF result.kind = "return"
                              THEN result.json.id_token ELSE result.message,
                     removed |-> UNDEF, revoked |-> FALSE]
    /\ UNCHANGED <<clientSecret, scopes, server, serverAddress, sessionStore,
                   routes, listeners, promise, inflight, everIssued, redeemable, redirects,
                   call, util>>

\* GET /logout when an answer arrives: revokeAndGetLogoutUrl() goes on to
\* its revoke, or throws and the handler answers 500, or returns and the
\* handler redirects, closes the server and exits the process
logoutResumed(h) ==
    /\ ~script.exited
    /\ h \in script.handlers
    /\ h.route = "logout"
    /\ h.pc = "call" /\ h.pending # NoAnswer
    /\ LET c == callAfter(h) IN
       IF c.pc # "returned"
       THEN /\ script' = [script EXCEPT !.handlers = Replace(h,
                   [h EXCEPT !.call = c, !.pending = NoAnswer])]
            /\ lastOp' = [op |-> "logoutResumed"]
       ELSE /\ script' = [script EXCEPT
                   !.handlers = @ \ {h},
                   !.metaServer = IF c.result.kind = "return" THEN "closed" ELSE @,
                   !.exited = c.result.kind = "return"]
            /\ lastOp' = [op |-> "metaResponse", route |-> "logout",
                          status |-> IF c.result.kind = "return" THEN 302 ELSE 500,
                          body |-> IF c.result.kind = "return"
                                   THEN c.result.url ELSE c.result.message,
                          removed |-> h.token,
                          revoked |-> h.token \in script.revoked]
    /\ UNCHANGED <<clientSecret, scopes, server, serverAddress, sessionStore,
                   routes, listeners, promise, inflight, everIssued, redeemable, redirects,
                   call, util>>

\* the steps of the client, its handlers and the token endpoint, for the
\* arguments of authorize(), the random values and the answers given
NextOver(scopeArgs, ports, tokens, verifiers, answers) ==
    \/ \E sc \in scopeArgs, port \in ports : authorize(sc, port)
    \/ \E l \in 1..MaxFlows : listening(l)
    \/ close
    \/ \E s \in tokens, v \in verifiers : getAuth(s, v)
    \/ \E ck \in StateInputs(tokens), c \in CodeInputs, s \in StateInputs(tokens) :
           getCallback(ck, c, s)
    \/ \E h \in inflight, a \in answers : exchangeAnswer(h, a)

\* the answers of the token endpoint in the specification below
SpecAnswers == {Answer200, Answer400, AnswerFailure}

\* the flow with every scopes argument, one port, one state, one verifier, a
\* configured secret, and a 200, a 400 and a failed exchange
Init == InitOver({"secret"})
Next == NextOver(ScopeArgs, {PORT}, {"s1"}, {"v1"}, SpecAnswers)
Spec == Init /\ [][Next]_vars

\* one flow after another with every refusal of the token endpoint
NextRefused == NextOver({UNDEF}, {PORT}, {"s1"}, {"v1"}, ErrorAnswers)
SpecRefused == Init /\ [][NextRefused]_vars

\* the refresh tokens given to the token client
RefreshTokens == {"Y", "Y2"}
\* the tokenType argument of revoke()
TokenTypes == {"refresh_token", "access_token"}
\* a 200 whose body has no id_token
Answer200NoId ==
    [kind |-> "response", status |-> 200, json |-> Json(UNDEF, "Y", UNDEF, UNDEF),
     message |-> UNDEF]
\* an answer whose body is not JSON: res.json() throws
Malformed(st) ==
    [kind |-> "malformed", status |-> st, json |-> NoJson,
     message |-> "Unexpected token < in JSON at position 0"]
\* what the token and revoke endpoints can answer to the token client
ClientAnswers ==
    {Answer200, Answer200NoId, AnswerFailure, Malformed(200), Malformed(400)}
        \cup ErrorAnswers

\* the token client used next to the flow: calls of refresh(), revoke() and
\* revokeAndGetLogoutUrl() with a secret configured or not, while listeners
\* are opened and closed
TokenInit == InitOver(Secrets)
TokenNext ==
    \/ \E t \in RefreshTokens : callRefresh(t)
    \/ \E t \in RefreshTokens, ty \in TokenTypes : callRevoke(t, ty)
    \/ \E t \in RefreshTokens : callRevokeAndGetLogoutUrl(t)
    \/ \E a \in ClientAnswers : refreshAnswer(a)
    \/ \E a \in ClientAnswers : revokeAnswer(a)
    \/ authorize(UNDEF, PORT)
    \/ \E l \in 1..MaxFlows : listening(l)
    \/ close
TokenSpec == TokenInit /\ [][TokenNext]_vars

\* config.clientSecret with the empty string, which counts as not configured
SecretConfigs == Secrets \cup {""}
\* the flow and the token client for every configuration of the secret, with
\* an endpoint that answers 200
SecretInit == InitOver(SecretConfigs)
SecretNext ==
    \/ authorize(UNDEF, PORT)
    \/ \E l \in 1..MaxFlows : listening(l)
    \/ close
    \/ getAuth("s1", "v1")
    \/ getCallback("s1", "c1", "s1")
    \/ \E h \in inflight : exchangeAnswer(h, Answer200)
    \/ callRefresh("Y")
    \/ callRevoke("Y", "refresh_token")
    \/ callRevokeAndGetLogoutUrl("Y")
    \/ refreshAnswer(Answer200)
    \/ revokeAnswer(Answer200)
SecretSpec == SecretInit /\ [][SecretNext]_vars

\* the two utilities on their own: every length up to MaxLength, every
\* charSet, every value of Math.random(), every digest
UtilInit == InitOver({UNDEF})
UtilNext ==
    \/ \E n \in 0..MaxLength, cs \in CharSets : callGenerate(n, cs)
    \/ \E r \in Randoms : generatePush(r)
    \/ generateReturn
    \/ \E d \in Digests : deriveChallenge(d)
UtilSpec == UtilInit /\ [][UtilNext]_vars

\* what the credential store holds when main() starts: nothing, or the
\* refresh token of an earlier run
StoredTokens == {UNDEF, "OLD"}
\* the answers of the token endpoint to the exchange of the login
MainAnswers == {Answer200, Answer200NoRefresh, Answer400}

\* main() of login/index.js, from its call to the start of the metadata
\* server, with the browser and the token endpoint of the flow
MainInit ==
    /\ clientSecret = "secret"
    /\ scopes = DEFAULT_SCOPE
    /\ server = NULL
    /\ serverAddress = NULL
    /\ sessionStore = EmptyStore
    /\ routes = <<>>
    /\ listeners = <<>>
    /\ promise = <<>>
    /\ inflight = {}
    /\ lastOp = [op |-> "new"]
    /\ everIssued = {}
    /\ redeemable = {}
    /\ redirects = {}
    /\ call = NoCall
    /\ util = NoUtil
    /\ \E stored \in StoredTokens : script = ScriptStart(stored)
MainNext ==
    \/ mainDelete
    \/ mainAuthorize
    \/ \E l \in 1..MaxFlows : listening(l)
    \/ getAuth("s1", "v1")
    \/ \E ck \in StateInputs({"s1"}), c \in CodeInputs, st \in StateInputs({"s1"}) :
           getCallback(ck, c, st)
    \/ \E h \in inflight, a \in MainAnswers : exchangeAnswer(h, a)
    \/ mainResumed
    \/ startMetadataServer
MainSpec == MainInit /\ [][MainNext]_vars

\* the routes of the metadata server that use the credential store
MetaRoutes == {"token", "idptoken", "logout"}
\* the metadata server, from the state main() leaves after a login that
\* returned the refresh token Y
MetaInit ==
    /\ clientSecret = "secret"
    /\ scopes = recordedScopes(MainScopes)
    /\ server = NULL
    /\ serverAddress = PORT
    /\ sessionStore = EmptyStore
    /\ routes = <<1>>
    /\ listeners = <<[state |-> "closed", port |-> PORT]>>
    /\ promise = <<Resolved(Answer200.json)>>
    /\ inflight = {}
    /\ lastOp = [op |-> "startMetadataServer"]
    /\ everIssued = {}
    /\ redeemable = {}
    /\ redirects = {}
    /\ call = NoCall
    /\ util = NoUtil
    /\ script = [ScriptStart(UNDEF) EXCEPT !.pc = "serving", !.store = "Y",
                                           !.latest = "Y",
                                           !.metaServer = "listening"]
MetaNext ==
    \/ \E route \in MetaRoutes : metaRequest(route)
    \/ \E h \in script.handlers : tokenGot(h)
    \/ \E h \in script.handlers : logoutGot(h)
    \/ \E h \in script.handlers : logoutDeleted(h)
    \/ \E h \in script.handlers :
           \E a \in refreshOutcomes(h.token) : providerRefresh(h, a)
    \/ \E h \in script.handlers, a \in {Answer200NoRefresh, Answer400, AnswerFailure} :
           providerRevoke(h, a)
    \/ \E h \in script.handlers : tokenResumed(h)
    \/ \E h \in script.handlers : logoutResumed(h)
MetaSpec == MetaInit /\ [][MetaNext]_vars

\* one flow of a client in which /auth is hit several times: the random
\* generator returns either of two states and either of two verifiers at
\* each hit, and the browser sends any of the cookies it was given, or none
HitsInit == InitOver({"secret"})
HitsNext ==
    \/ routes = <<>> /\ authorize(UNDEF, PORT)
    \/ \E l \in 1..MaxFlows : listening(l)
    \/ close
    \/ \E s \in StateTokens, v \in Verifiers : getAuth(s, v)
    \/ \E ck \in StateTokens \cup {UNDEF}, s \in StateTokens :
           getCallback(ck, "c1", s)
    \/ \E h \in inflight : exchangeAnswer(h, Answer200)
HitsSpec == HitsInit /\ [][HitsNext]_vars

\* flows of one client bound to either of two ports, with one state and
\* one verifier and an endpoint that answers 200
PortsInit == InitOver({"secret"})
PortsNext ==
    \/ \E port \in Ports : authorize(UNDEF, port)
    \/ \E l \in 1..MaxFlows : listening(l)
    \/ close
    \/ getAuth("s1", "v1")
    \/ getCallback("s1", "c1", "s1")
    \/ \E h \in inflight : exchangeAnswer(h, Answer200)
PortsSpec == PortsInit /\ [][PortsNext]_vars

\* the token endpoint answers every exchange or the request fails, and the
\* event loop runs the listen callback and the rest of the handler
FairSpec ==
    /\ Spec
    /\ WF_vars(\E l \in 1..MaxFlows : listening(l))
    /\ WF_vars(\E h \in inflight, a \in SpecAnswers : exchangeAnswer(h, a))

(***************************************************************************)
(* Properties.                                                             *)
(***************************************************************************)
InvalidIdP == "Invalid IdP response"
\* a listener is bound or being bound
Unclosed == {l \in DOMAIN listeners : listeners[l].state # "closed"}
\* the step that led here ended a /callback handler
HandlerEnded ==
    \/ lastOp.op = "answer"
    \/ lastOp.op = "callback" /\ ~lastOp.sent

\* C1: an authorize() call made while a listener is bound is rejected at
\* once with the pending-flow error; it never returns a pending promise.
C1_RejectsWhileBound ==
    (lastOp.op = "authorize" /\ lastOp.bound) =>
        /\ lastOp.result = "rejected"
        /\ lastOp.message = "Pending authorization flow. Close existing session to rerun."

C1_Witness ==
    /\ lastOp.op = "authorize"
    /\ lastOp.bound
    /\ lastOp.result = "rejected"

\* C2: an authorize() call that is rejected changes nothing: scopes, marker,
\* address, session store, registered handlers, listeners, promises and
\* pending exchanges are what they were.
C2_RejectedNoEffect ==
    [][(lastOp'.op = "authorize" /\ lastOp'.result = "rejected") =>
           UNCHANGED <<clientSecret, scopes, server, serverAddress,
                       sessionStore, routes, listeners, promise, inflight,
                       everIssued, redeemable, redirects>>]_vars

C2_Witness ==
    /\ lastOp.op = "authorize"
    /\ lastOp.result = "rejected"
    /\ recordedScopes(lastOp.scopesArg) # scopes
    /\ sessionStore # EmptyStore

\* C3: at most one listener is bound at any time, every bound listener is
\* the one this.server references, and a listener is opened only by a call
\* that found the marker empty and nothing bound.
C3_OneListener ==
    /\ Cardinality(Unclosed) <= 1
    /\ \A l \in Unclosed : server = l
    /\ (lastOp.op = "authorize" /\ lastOp.result = "pending") =>
           (lastOp.marker = NULL /\ ~lastOp.bound)

C3_Witness ==
    /\ Len(listeners) = 2
    /\ listeners[1].state = "closed"
    /\ listeners[2].state = "listening"
    /\ server = 2
    /\ everIssued # {}

\* C4: a /callback whose state was never issued by /auth is answered 400
\* 'Invalid IdP response', rejects the flow and sends nothing to the token
\* endpoint, whatever the state and the cookie are.
C4_UnknownStateRejected ==
    (lastOp.op = "callback" /\ ~lastOp.everIssued) =>
        /\ ~lastOp.sent
        /\ lastOp.status = 400
        /\ lastOp.body = InvalidIdP
        /\ promise[lastOp.flow].status = "rejected"

\* C5: a state issued by /auth is redeemed at most once per issue: an
\* exchange is sent for it only if /auth issued it since the last exchange
\* for it, and a hit that finds its entry absent is answered 400 'Invalid
\* IdP response' and sends nothing, also while the first exchange is pending.
C5_NoReplay ==
    (lastOp.op = "callback" /\ lastOp.generated) =>
        /\ lastOp.sent => lastOp.redeemable
        /\ ~lastOp.ownKey =>
               (~lastOp.sent /\ lastOp.status = 400 /\ lastOp.body = InvalidIdP)

C5_Witness ==
    /\ lastOp.op = "callback"
    /\ lastOp.generated /\ lastOp.everIssued
    /\ lastOp.hasCode /\ lastOp.cookieMatches
    /\ ~lastOp.ownKey
    /\ lastOp.overlaps
    /\ ~lastOp.sent

\* C6: a /callback leads to a token exchange exactly when the state is
\* present, the code is present, the cookie equals the state and the state
\* is a key of the session store; otherwise it is answered 400 'Invalid IdP
\* response', the flow is rejected with that message and nothing is sent.
C6_FourConditions ==
    lastOp.op = "callback" =>
        /\ lastOp.sent <=> (/\ lastOp.hasState
                            /\ lastOp.hasCode
                            /\ lastOp.cookieMatches
                            /\ lastOp.ownKey)
        /\ ~lastOp.sent =>
               /\ lastOp.status = 400
               /\ lastOp.body = InvalidIdP
               /\ promise[lastOp.flow] = Rejected(InvalidIdP)

\* C7: when the token endpoint answers the exchange of a validated
\* /callback with 200, the promise of the flow that received the callback
\* is resolved with exactly the JSON of that answer (stated here for the
\* callbacks that redeem a state /auth issued).
C7_ResolvedWithJson ==
    (lastOp.op = "answer" /\ lastOp.state \in everIssued
                          /\ lastOp.answer.kind = "response"
                          /\ lastOp.answer.status = 200) =>
        promise[lastOp.flow] = Resolved(lastOp.answer.json)

\* C8: a promise is settled at most once: once resolved or rejected, no
\* later resolve or reject changes its outcome.
C8_SettledOnce ==
    [][\A f \in DOMAIN promise :
           promise[f].status # "pending" => promise'[f] = promise[f]]_vars

C8_Witness ==
    /\ lastOp.op = "answer"
    /\ lastOp.answer = Answer200
    /\ lastOp.response.status = 302
    /\ promise[handlerFlow] = Rejected(InvalidIdP)
    /\ server = NULL

\* C9: every accepted authorize() call whose flow has been ended, by a
\* /callback handler or by close(), eventually has its promise settled.
C9_EventuallySettled ==
    \A f \in 1..MaxFlows :
        (f \in DOMAIN listeners /\ listeners[f].state = "closed")
            ~> (f \in DOMAIN promise /\ promise[f].status # "pending")

\* C10: every path of a /callback handler ends with the listener closed and
\* the marker cleared, and whenever a promise is settled no listener is
\* bound.
C10_HandlerCloses ==
    [][(HandlerEnded' \/ \E f \in DOMAIN promise : promise'[f] # promise[f]) =>
           (server' = NULL /\ Unclosed' = {})]_vars

C10_Witness ==
    /\ lastOp.op = "answer"
    /\ lastOp.answer = AnswerFailure
    /\ lastOp.response.status = 500
    /\ promise[lastOp.flow] = Rejected(AnswerFailure.message)
    /\ server = NULL
    /\ Unclosed = {}

\* C11: close() is idempotent: called when this.server is empty, as after a
\* first close(), it changes nothing; called while a listener is bound it
\* closes that listener and clears this.server, and touches nothing else;
\* the state it leaves is one a further close() leaves as it is.
C11_CloseIdempotent ==
    [][lastOp'.op = "close" =>
           /\ server' = NULL
           /\ UNCHANGED <<clientSecret, scopes, serverAddress, sessionStore,
                          routes, promise, everIssued, redeemable, redirects, call>>
           /\ {[h EXCEPT !.closedMeanwhile = FALSE] : h \in inflight'}
                  = {[h EXCEPT !.closedMeanwhile = FALSE] : h \in inflight}
           /\ server = NULL => UNCHANGED listeners
           /\ lastOp.op = "close" => UNCHANGED <<listeners, server>>
           /\ server # NULL =>
                  /\ listeners'[server].state = "closed"
                  /\ \A l \in DOMAIN listeners \ {server} :
                         listeners'[l] = listeners[l]
           /\ AfterClose(listeners', server') = listeners'
           /\ Unclosed' = {}]_vars

C11_Witness ==
    /\ lastOp.op = "close"
    /\ lastOp.marker = NULL
    /\ Len(listeners) >= 1
    /\ Unclosed = {}
    /\ promise[1] = Pending

\* C12: the client can be used again after a flow has ended: an authorize()
\* that finds this.server empty is accepted and starts a new listener, and
\* once the exchange of a validated /callback of a flow has been answered,
\* the promise that the authorize() of that flow returned is settled (stated
\* here for the callbacks that redeem a state /auth issued).
C12_ReusedFlowSettles ==
    /\ (lastOp.op = "authorize" /\ lastOp.marker = NULL) =>
           /\ lastOp.result = "pending"
           /\ server = lastOp.flow
           /\ listeners[lastOp.flow].state = "binding"
    /\ (lastOp.op = "answer" /\ lastOp.state \in everIssued) =>
           promise[lastOp.flow].status # "pending"

\* C13: a close() that closes the listener while a /callback handler awaits
\* the token endpoint does not abort the exchange: when the answer arrives
\* the handler sends its HTTP response and the promise of the flow that
\* received the callback holds the outcome of that exchange (stated here for
\* the callbacks that redeem a state /auth issued).
C13_CloseDoesNotAbort ==
    (lastOp.op = "answer" /\ lastOp.closedMeanwhile
                          /\ lastOp.state \in everIssued) =>
        /\ lastOp.response.status \in {302, 500, lastOp.answer.status}
        /\ promise[lastOp.flow] = exchangeOutcome(lastOp.answer)

\* C14: when the exchange of a validated /callback fails while the promise
\* of its flow is pending, the browser gets the matching response (the
\* status and the error of the token endpoint, or 500 and the message of the
\* failed request) and the promise of the flow is rejected with that
\* message, not resolved and not left pending (stated here for the callbacks
\* that redeem a state /auth issued).
C14_FailedExchangeRejects ==
    (lastOp.op = "answer" /\ lastOp.state \in everIssued
                          /\ lastOp.pendingBefore
                          /\ ~(lastOp.answer.kind = "response"
                               /\ lastOp.answer.status = 200)) =>
        IF lastOp.answer.kind = "failure"
        THEN /\ lastOp.response = [status |-> 500, body |-> lastOp.answer.message]
             /\ promise[lastOp.flow] = Rejected(lastOp.answer.message)
        ELSE /\ lastOp.response.status = lastOp.answer.status
             /\ lastOp.response.body = ErrorMessage(lastOp.answer.json.error)
             /\ promise[lastOp.flow].status = "rejected"
             /\ promise[lastOp.flow].message \in
                    {lastOp.answer.json.error, lastOp.answer.json.error_description}

\* the text the specification expects of a refusal: error_description when
\* the body has one, its error otherwise
DescriptionElseError(json) ==
    IF json.error_description # UNDEF THEN json.error_description
    ELSE ErrorMessage(json.error)

\* C15: when the token endpoint refuses the exchange of a validated
\* /callback (a status other than 200) while the promise of its flow is
\* pending, the promise is rejected with the error_description of the body
\* when it has one and with its error otherwise, for every combination of
\* the two fields.
C15_ExchangeErrorText ==
    (lastOp.op = "answer" /\ lastOp.state \in everIssued
                          /\ lastOp.pendingBefore
                          /\ lastOp.answer.kind = "response"
                          /\ lastOp.answer.status # 200) =>
        promise[lastOp.flow] = Rejected(DescriptionElseError(lastOp.answer.json))

\* the text of a refusal with the fallback: error_description when the body
\* has a non-empty one, else its error when it has a non-empty one, else
\* 'Unknown Error'
TextOrUnknown(json) ==
    CASE json.error_description \notin {UNDEF, ""} -> json.error_description
      [] json.error_description \in {UNDEF, ""} /\ json.error \notin {UNDEF, ""}
             -> json.error
      [] OTHER -> "Unknown Error"

\* a refresh() or revoke() call has returned or thrown
Done(fn) == call.fn = fn /\ call.pc = "returned"

\* C16 as stated: refresh() returns the JSON body of a 200 unchanged, and
\* for every other status it throws an error whose message is the
\* error_description of the body if present, else its error.
C16_RefreshContract ==
    (Done("refresh") /\ call.answers[1].kind = "response") =>
        IF call.answers[1].status = 200
        THEN call.result = Returned(call.answers[1].json, UNDEF)
        ELSE call.result = Thrown(DescriptionElseError(call.answers[1].json))

\* C16 amended: refresh() returns the JSON body of a 200 unchanged, and for
\* every other status it throws; the message is the error_description of
\* the JSON body if present and not empty, else its error if present and not
\* empty, else 'Unknown Error'.
C16_RefreshContractAmended ==
    Done("refresh") =>
        /\ (call.answers[1].kind = "response" /\ call.answers[1].status = 200)
               => call.result = Returned(call.answers[1].json, UNDEF)
        /\ ~(call.answers[1].kind = "response" /\ call.answers[1].status = 200)
               => call.result.kind = "throw"
        /\ (call.answers[1].kind = "response" /\ call.answers[1].status # 200)
               => call.result = Thrown(TextOrUnknown(call.answers[1].json))

C16_Witness ==
    /\ Done("refresh")
    /\ call.answers[1].kind = "response"
    /\ call.answers[1].status = 400
    /\ call.answers[1].json = Json(UNDEF, UNDEF, "invalid_grant", "")
    /\ call.result = Thrown("invalid_grant")

\* C17 as stated: revoke() succeeds exactly when the revoke endpoint answers
\* 200, and for every other status it throws an error whose message is the
\* error_description of the body, else its error.
C17_RevokeContract ==
    Done("revoke") =>
        /\ call.result.kind = "return" <=>
               (call.answers[1].kind # "failure" /\ call.answers[1].status = 200)
        /\ (call.answers[1].kind = "response" /\ call.answers[1].status # 200)
               => call.result = Thrown(DescriptionElseError(call.answers[1].json))

\* C17 amended: revoke() succeeds exactly when the revoke endpoint answers
\* 200, and for every other status it throws; the message is the
\* error_description of the JSON body if present and not empty, else its
\* error if present and not empty, else 'Unknown Error'.
C17_RevokeContractAmended ==
    Done("revoke") =>
        /\ call.result.kind = "return" <=>
               (call.answers[1].kind # "failure" /\ call.answers[1].status = 200)
        /\ call.result.kind = "return" => call.result = Returned(NoJson, UNDEF)
        /\ (call.answers[1].kind = "response" /\ call.answers[1].status # 200)
               => call.result = Thrown(TextOrUnknown(call.answers[1].json))

C17_Witness ==
    /\ Done("revoke")
    /\ call.answers[1].kind = "response"
    /\ call.answers[1].status = 500
    /\ call.answers[1].json = NoJson
    /\ call.result = Thrown("Unknown Error")
    /\ call.requests = <<revokeRequest(call.token, "access_token")>>

\* an answer with status 200 and a JSON body
Ok200(a) == a.kind = "response" /\ a.status = 200
\* the message of the error a failed request to an endpoint ends in
FailureText(a) ==
    IF a.kind = "response" THEN TextOrUnknown(a.json) ELSE a.message

\* C18: in revokeAndGetLogoutUrl() the request to the token endpoint comes
\* first and the request to the revoke endpoint is only sent once refresh()
\* has succeeded; when refresh() fails the call fails with that error and
\* has sent nothing to the revoke endpoint.
C18_RefreshBeforeRevoke ==
    call.fn = "revokeAndGetLogoutUrl" =>
        /\ Len(call.requests) \in {1, 2}
        /\ call.requests[1] = refreshRequest(call.token)
        /\ \A i \in DOMAIN call.requests :
               call.requests[i].to = "revokeUri" =>
                   (i = 2 /\ Len(call.answers) >= 1 /\ Ok200(call.answers[1]))
        /\ (Len(call.answers) >= 1 /\ ~Ok200(call.answers[1])) =>
               /\ call.pc = "returned"
               /\ call.result = Thrown(FailureText(call.answers[1]))
               /\ \A i \in DOMAIN call.requests : call.requests[i].to # "revokeUri"

C18_Witness ==
    /\ Done("revokeAndGetLogoutUrl")
    /\ call.answers = <<Malformed(400)>>
    /\ call.result = Thrown(Malformed(400).message)
    /\ Len(call.requests) = 1

\* C19: when refresh() is answered 200 with id_token Z and revoke() is
\* answered 200, revokeAndGetLogoutUrl(token) returns exactly
\* '<logoutUri>?id_token_hint=Z', and the revoke request it sent is for the
\* same token with token_type_hint 'refresh_token'.
C19_LogoutUrl ==
    (/\ Done("revokeAndGetLogoutUrl")
     /\ Len(call.answers) = 2
     /\ Ok200(call.answers[1])
     /\ call.answers[1].json.id_token # UNDEF
     /\ call.answers[2].kind # "failure" /\ call.answers[2].status = 200) =>
        /\ call.result.kind = "return"
        /\ call.result.url =
               "logoutUri?id_token_hint=" \o call.answers[1].json.id_token
        /\ Len(call.requests) = 2
        /\ call.requests[1].token = call.token
        /\ call.requests[2].to = "revokeUri"
        /\ call.requests[2].token = call.token
        /\ call.requests[2].token_type_hint = "refresh_token"

C19_Witness ==
    /\ Done("revokeAndGetLogoutUrl")
    /\ call.token = "Y2"
    /\ call.answers = <<Answer200, Malformed(200)>>
    /\ call.result = Returned(NoJson, "logoutUri?id_token_hint=X")

\* C20: when revoke() fails after refresh() has succeeded inside
\* revokeAndGetLogoutUrl(), the call fails with the error of revoke() and
\* returns no sign out link.
C20_RevokeErrorPropagates ==
    (/\ Done("revokeAndGetLogoutUrl")
     /\ Len(call.answers) = 2
     /\ ~(call.answers[2].kind # "failure" /\ call.answers[2].status = 200)) =>
        /\ Ok200(call.answers[1])
        /\ call.result = Thrown(FailureText(call.answers[2]))
        /\ call.result.url = UNDEF

C20_Witness ==
    /\ Done("revokeAndGetLogoutUrl")
    /\ call.answers[1] = Answer200
    /\ Len(call.answers) = 2
    /\ call.answers[2].kind = "response"
    /\ call.answers[2].status = 400
    /\ call.answers[2].json = Json(UNDEF, UNDEF, "invalid_grant", "Token expired")
    /\ call.result = Thrown("Token expired")

\* the scope the specification expects for a scopes argument
ExpectedScope(sc) == IF sc \in {UNDEF, ""} THEN "openid" ELSE sc \o " openid"

\* C21: the scope of every /auth redirect is that of the authorize() call
\* that started the active flow, with openid appended: an accepted
\* authorize() records '<scopes> openid', or 'openid' when it was given no
\* scopes, no other step changes what is recorded, and /auth sends what is
\* recorded.
C21_ScopeOfActiveFlow ==
    [][/\ (lastOp'.op = "authorize" /\ lastOp'.result = "pending") =>
              scopes' = ExpectedScope(lastOp'.scopesArg)
       /\ ~(lastOp'.op = "authorize" /\ lastOp'.result = "pending") =>
              scopes' = scopes
       /\ lastOp'.op = "auth" =>
              /\ lastOp'.scope = scopes
              /\ lastOp'.scope \in {ExpectedScope(sc) : sc \in ScopeArgs}]_vars

C21_Witness ==
    /\ lastOp.op = "auth"
    /\ lastOp.scope = "offline_access openid"
    /\ Len(listeners) = 2
    /\ server = 2

\* a client secret is configured
Configured == clientSecret \notin {UNDEF, ""}
\* the body of a request carries client_secret, and it is the configured one
CarriesSecret(request) ==
    request.client_secret # UNDEF /\ request.client_secret = clientSecret

\* C22: client_secret is in the body of a request exactly when a client
\* secret is configured, for the authorization-code exchange, for refresh
\* and for revoke.
C22_SecretIffConfigured ==
    /\ (lastOp.op = "callback" /\ lastOp.sent) =>
           /\ lastOp.request.grant_type = "authorization_code"
           /\ CarriesSecret(lastOp.request) <=> Configured
           /\ ~Configured => lastOp.request.client_secret = UNDEF
    /\ \A i \in DOMAIN call.requests :
           /\ CarriesSecret(call.requests[i]) <=> Configured
           /\ ~Configured => call.requests[i].client_secret = UNDEF

C22_Witness ==
    /\ clientSecret = ""
    /\ lastOp.op = "callback" /\ lastOp.sent
    /\ lastOp.request.client_secret = UNDEF
    /\ Len(call.requests) = 1
    /\ call.requests[1].to = "revokeUri"
    /\ call.requests[1].client_secret = UNDEF

\* the query parameters of the /auth redirect that the handler computes
RedirectParams == {"redirect_uri", "scope", "code_challenge",
                   "code_challenge_method", "state"}
\* the fields of a request of the token client
ClientRequestFields == {"to", "grant_type", "token", "token_type_hint",
                        "client_secret"}

\* C23: no parameter of the /auth redirect is the code verifier that /auth
\* has generated (the challenge differs from it), no request of refresh()
\* or revoke() carries a verifier, and the exchange of a callback that
\* redeems a stored entry carries the verifier stored for its state.
C23_VerifierOnlyInExchange ==
    /\ lastOp.op = "auth" =>
           /\ lastOp.verifier \in Verifiers
           /\ \A f \in RedirectParams :
                  ToString(lastOp[f]) # ToString(lastOp.verifier)
    /\ (lastOp.op = "callback" /\ lastOp.sent /\ lastOp.ownKey) =>
           lastOp.request.code_verifier \in Verifiers
    /\ \A i \in DOMAIN call.requests : \A f \in ClientRequestFields :
           call.requests[i][f] \notin Verifiers

C23_Witness ==
    /\ lastOp.op = "callback" /\ lastOp.sent /\ lastOp.ownKey
    /\ lastOp.request.code_verifier = "v1"
    /\ call.requests # <<>>

\* the characters of s are all in the set
Within(s, set) == \A i \in DOMAIN s : s[i] \in set
\* the characters of a sequence
Range(s) == {s[i] : i \in DOMAIN s}

\* C24: generateRandomString(n, alphabet) returns a string of exactly n
\* characters, each of the alphabet given, or of the lowercase alphanumeric
\* alphabet when none (or an empty one) is given, for every n >= 0 and every
\* value of Math.random().
C24_LengthAndAlphabet ==
    (util.fn = "generateRandomString" /\ util.pc = "returned") =>
        /\ Len(util.out) = util.length
        /\ Within(util.out,
                  IF util.charSet.given /\ util.charSet.chars # <<>>
                  THEN Range(util.charSet.chars)
                  ELSE Range(DefaultChars))

C24_Witness ==
    /\ util.fn = "generateRandomString" /\ util.pc = "returned"
    /\ util.length = MaxLength
    /\ ~util.charSet.given
    /\ util.out[1] = "a"
    /\ util.out[MaxLength] = "9"

\* C25: the code challenge is the base64 digest with every '+' replaced by
\* '-', every '/' replaced by '_' and the trailing '=' removed: it has no
\* '+', no '/' and no trailing '=', and is otherwise the digest, character
\* by character.
C25_UrlSafeChallenge ==
    util.fn = "codeChallenge" =>
        /\ Within(util.out, {"A", "-", "_"})
        /\ Len(util.out) = Cardinality({i \in DOMAIN util.digest :
                                           util.digest[i] # "="})
        /\ \A i \in DOMAIN util.out :
               util.out[i] = CASE util.digest[i] = "+" -> "-"
                               [] util.digest[i] = "/" -> "_"
                               [] OTHER -> util.digest[i]

C25_Witness ==
    /\ util.fn = "codeChallenge"
    /\ util.digest = <<"+", "/", "A", "=", "=">>
    /\ util.out = <<"-", "_", "A">>

\* the steps of refresh(), revoke() and revokeAndGetLogoutUrl()
TokenClientOps == {"refresh", "revoke", "revokeAndGetLogoutUrl",
                   "refreshAnswer", "revokeAnswer"}

\* C26: the steps of refresh(), revoke() and revokeAndGetLogoutUrl(), taken
\* with or without a flow in progress, leave this.server, the listeners,
\* this.serverAddress, this.scopes and the session store as they are (and
\* the promises, the handlers and the pending exchanges too).
C26_TokenClientFrame ==
    [][lastOp'.op \in TokenClientOps =>
           UNCHANGED <<server, listeners, serverAddress, scopes, sessionStore,
                       routes, promise, inflight, clientSecret>>]_vars

C26_Witness ==
    /\ lastOp.op = "revokeAnswer"
    /\ call.fn = "revokeAndGetLogoutUrl" /\ call.pc = "returned"
    /\ server # NULL
    /\ Listening # {}
    /\ sessionStore # EmptyStore
    /\ inflight # {}

\* C27: when the credential store holds a refresh token as main() starts,
\* main() keeps that token and never calls authorize().
C27_ExistingSessionKept ==
    (script.pc # "none" /\ script.startedWith # UNDEF) =>
        /\ script.store = script.startedWith
        /\ routes = <<>>

MetaInitReached ==
    /\ script = [ScriptStart(UNDEF) EXCEPT !.pc = "serving", !.store = "Y",
                                          !.latest = "Y",
                                          !.metaServer = "listening"]
    /\ promise = <<Resolved(Answer200.json)>>
    /\ inflight = {} /\ sessionStore = EmptyStore /\ server = NULL
    /\ serverAddress = PORT /\ scopes = recordedScopes(MainScopes)
    /\ routes = <<1>> /\ listeners = <<[state |-> "closed", port |-> PORT]>>
    /\ everIssued = {} /\ redeemable = {} /\ clientSecret = "secret"
    /\ redirects = {}
    /\ call = NoCall /\ util = NoUtil
    /\ lastOp = [op |-> "startMetadataServer"]

\* C29: whatever the interleaving of GET /token and GET /idptoken, once
\* every handler has finished (and no /logout has cleared the store) the
\* credential store holds the refresh token the provider issued last.
C29_StoreHoldsLatest ==
    (script.pc = "serving" /\ script.handlers = {} /\ ~script.cleared) =>
        script.store = script.latest

\* C30: when a /logout handler has finished and has removed a refresh token
\* from the credential store, that token is revoked at the provider; and
\* the metadata server is closed only by a /logout that succeeded.
C30_LogoutRevokes ==
    /\ (lastOp.op = "metaResponse" /\ lastOp.route = "logout"
                                   /\ lastOp.removed # UNDEF) =>
           lastOp.removed \in script.revoked
    /\ (script.pc = "serving" /\ script.metaServer = "closed") =>
           (lastOp.op = "metaResponse" /\ lastOp.route = "logout"
                                       /\ lastOp.status = 302)

\* C31: when an authorize() call is accepted, the session store holds no
\* entry: nothing an earlier flow has stored is left for the new flow.
C31_FreshStore ==
    (lastOp.op = "authorize" /\ lastOp.result = "pending") =>
        DOMAIN sessionStore = {}

\* C32: in every reachable state the session store holds at most one
\* state-to-verifier entry, however often /auth is hit within a flow.
C32_AtMostOneEntry == Cardinality(DOMAIN sessionStore) <= 1

\* C33: every GET /auth hit answers 302 and neither settles the flow nor
\* closes its listener; right after it the session store maps the state
\* just generated to the verifier just generated, the session_state cookie
\* carries that state, and the redirect carries that state, the challenge
\* derived from that verifier and code_challenge_method=S256.
C33_AuthHit ==
    [][lastOp'.op = "auth" =>
           /\ lastOp'.status = 302
           /\ UNCHANGED <<promise, server, listeners, inflight>>
           /\ Get(sessionStore', lastOp'.state) = lastOp'.verifier
           /\ lastOp'.cookie = lastOp'.state
           /\ lastOp'.code_challenge = webSafe(Sha256Base64(lastOp'.verifier))
           /\ lastOp'.code_challenge_method = "S256"
           /\ \E r \in redirects' : /\ r.latest
                                    /\ r.state = lastOp'.state
                                    /\ r.code_challenge = lastOp'.code_challenge]_vars
\* a second hit has stored its verifier next to the entry of the first
C33_Witness ==
    /\ lastOp.op = "auth" /\ lastOp.state = "s2" /\ lastOp.verifier = "v2"
    /\ sessionStore = Put(Put(EmptyStore, "s1", "v1"), "s2", "v2")
    /\ promise = <<Pending>>

\* the states a step has sent to the token endpoint
Redeemed == {h.state : h \in inflight' \ inflight}

\* C34: the code_verifier sent to the token endpoint when a /callback
\* redeems state s is the verifier whose challenge was sent in the /auth
\* redirect that carried s, whichever unredeemed redirect with state s the
\* browser has followed, for any states and verifiers the generator returns.
C34_VerifierOfRedirect ==
    [][(lastOp'.op = "callback" /\ lastOp'.sent) =>
           \A r \in redirects :
               r.state \in Redeemed =>
                   r.code_challenge =
                       webSafe(Sha256Base64(lastOp'.request.code_verifier))]_vars

\* C34, amended: the code_verifier sent when a /callback redeems state s is
\* the verifier whose challenge was sent in the latest /auth redirect that
\* carried s.
C34_VerifierOfLatestRedirect ==
    [][(lastOp'.op = "callback" /\ lastOp'.sent) =>
           /\ \E r \in redirects : r.state \in Redeemed /\ r.latest
           /\ \A r \in redirects :
                  (r.state \in Redeemed /\ r.latest) =>
                      r.code_challenge =
                          webSafe(Sha256Base64(lastOp'.request.code_verifier))]_vars
\* s2 is redeemed with its own verifier after /auth has issued s1 and s2
C34_Witness ==
    /\ lastOp.op = "callback" /\ lastOp.sent
    /\ lastOp.request.code_verifier = "v2"
    /\ \E h \in inflight : h.state = "s2"
    /\ DOMAIN sessionStore = {"s1"}

\* C35: the close() at the end of a /callback handler closes no listener
\* but the one of the flow in which the callback was received, whatever
\* close() and authorize() calls happen while the handler awaits.
C35_ClosesOwnListener ==
    [][lastOp'.op \in {"callback", "answer"} =>
           \A l \in DOMAIN listeners :
               (listeners[l].state # "closed" /\ listeners'[l].state = "closed")
                   => l = lastOp'.flow]_vars

\* the flows whose promise is resolved or rejected
Settled == {f \in DOMAIN promise : promise[f].status # "pending"}

C37_SameRedirectUri ==
    [][(lastOp'.op = "callback" /\ lastOp'.sent) =>
           \A r \in redirects :
               r.state \in Redeemed =>
                   r.redirect_uri = lastOp'.request.redirect_uri]_vars

\* C38: a /callback answered 'Invalid IdP response' leaves the session
\* store as it was: it removes no entry and adds none.
C38_InvalidCallbackFrame ==
    [][(lastOp'.op = "callback" /\ lastOp'.body = InvalidIdP) =>
           /\ lastOp'.status = 400
           /\ sessionStore' = sessionStore]_vars
\* the /callback came with the state s1 and without its cookie: the
\* verifier of s1 is still in the store
C38_Witness ==
    /\ lastOp.op = "callback" /\ lastOp.body = InvalidIdP
    /\ lastOp.hasState /\ lastOp.ownKey /\ ~lastOp.cookieMatches
    /\ sessionStore = Put(EmptyStore, "s1", "v1")

====
